---- MODULE Spec2Model ----
(***************************************************************************)
(* Model of the build pipeline of build.js: buildHTML, buildCSS, buildJS,  *)
(* copyAssets and updateAssetPaths, run in sequence by runBuild over a     *)
(* file system of a template, core files, component directories and       *)
(* static assets.                                                          *)
(*                                                                         *)
(* A text is a sequence of tokens.  The tokens that matter to the code are *)
(* kept apart: the two halves of a placeholder comment ("<!-- NAME" and    *)
(* " -->"), the characters of the replacement patterns of                  *)
(* String.prototype.replace (dollar, ampersand, grave accent, apostrophe), *)
(* and the pieces of the asset path prefixes.  Every other token is an     *)
(* ordinary character.                                                     *)
(***************************************************************************)
EXTENDS Integers, Sequences, FiniteSets, TLC

VARIABLES
    templateFile,   \* ./index-template.html: a file
    componentsDir,  \* ./components: [exists, entries], entries in listing order
    coreStyles,     \* ./core/styles: file name -> file
    coreScripts,    \* ./core/scripts: file name -> file
    imagesDir,      \* ./core/assets/images: [exists, entries]
    fontsDir,       \* ./core/assets/fonts: [exists, entries]
    build,          \* ./build: the output directory
    readOnly,       \* files of ./build the process may not write
    pc,             \* the stage runBuild is about to call, or "done" / "failed"
    console,        \* the lines console.log has printed in this run
    runs,           \* how many times build.js has been started
    page            \* the page of a browser that loads build/scripts.js

vars == <<templateFile, componentsDir, coreStyles, coreScripts, imagesDir,
          fontsDir, build, readOnly, pc, console, runs, page>>

sources == <<templateFile, componentsDir, coreStyles, coreScripts, imagesDir,
             fontsDir, readOnly>>

-----------------------------------------------------------------------------
(* Files and texts *)

NoFile == [exists |-> FALSE, data |-> <<>>]

File(text) == [exists |-> TRUE, data |-> text]

\* no browser has opened the page
NoPage ==
    [loaded |-> FALSE, table |-> {}, listening |-> FALSE, aos |-> FALSE,
     fired |-> FALSE, calls |-> <<>>, log |-> <<>>]

\* an existsSync that every path passes
ExistsSyncAlways(f) == TRUE

\* fs.existsSync(path)
ExistsSync(f) == f.exists

RECURSIVE Concat(_)
Concat(texts) ==
    IF texts = <<>> THEN <<>> ELSE Head(texts) \o Concat(Tail(texts))

IsPrefix(p, s) == Len(p) <= Len(s) /\ SubSeq(s, 1, Len(p)) = p

IsSuffix(p, s) ==
    Len(p) <= Len(s) /\ SubSeq(s, Len(s) - Len(p) + 1, Len(s)) = p

\* whether pat occurs in str at position p (1-based)
OccursAt(str, pat, p) ==
    p >= 1 /\ p + Len(pat) - 1 <= Len(str)
        /\ SubSeq(str, p, p + Len(pat) - 1) = pat

Occurrences(str, pat) == {p \in 1..Len(str) : OccursAt(str, pat, p)}

Count(str, pat) == Cardinality(Occurrences(str, pat))

\* String.prototype.indexOf: the first position of pat in str, 0 when absent
IndexOf(str, pat) ==
    IF Occurrences(str, pat) = {} THEN 0
    ELSE CHOOSE p \in Occurrences(str, pat) :
             \A q \in Occurrences(str, pat) : p <= q

-----------------------------------------------------------------------------
(* String.prototype.replace(pattern, replacement) with a string pattern *)

\* the character U+0060 (grave accent)
Grave == "GRAVE"

\* The replacement text is scanned for the patterns $$, $&, $GRAVE and $'.  A
\* string pattern has no captures, so $1..$99 and $<name> stay as written.
RECURSIVE Substitute(_, _, _, _, _)
Substitute(matched, str, position, replacement, i) ==
    IF i > Len(replacement) THEN <<>>
    ELSE IF replacement[i] = "$" /\ i < Len(replacement)
              /\ replacement[i + 1] \in {"$", "&", Grave, "'"}
    THEN (CASE replacement[i + 1] = "$" -> <<"$">>
            [] replacement[i + 1] = "&" -> matched
            [] replacement[i + 1] = Grave -> SubSeq(str, 1, position - 1)
            [] replacement[i + 1] = "'" ->
                   SubSeq(str, position + Len(matched), Len(str)))
         \o Substitute(matched, str, position, replacement, i + 2)
    ELSE <<replacement[i]>>
         \o Substitute(matched, str, position, replacement, i + 1)

GetSubstitution(matched, str, position, replacement) ==
    Substitute(matched, str, position, replacement, 1)

\* what str.replaceAll(pat, replacement) would give: every occurrence
RECURSIVE ReplaceEveryFrom(_, _, _, _)
ReplaceEveryFrom(str, pat, replacement, i) ==
    IF i > Len(str) THEN <<>>
    ELSE IF OccursAt(str, pat, i)
    THEN GetSubstitution(pat, str, i, replacement)
         \o ReplaceEveryFrom(str, pat, replacement, i + Len(pat))
    ELSE <<str[i]>> \o ReplaceEveryFrom(str, pat, replacement, i + 1)

StringReplaceEvery(str, pat, replacement) ==
    ReplaceEveryFrom(str, pat, replacement, 1)

\* str.replace(pat, replacement): the first occurrence only
StringReplace(str, pat, replacement) ==
    LET p == IndexOf(str, pat)
    IN  IF p = 0 THEN str
        ELSE SubSeq(str, 1, p - 1)
             \o GetSubstitution(pat, str, p, replacement)
             \o SubSeq(str, p + Len(pat), Len(str))

-----------------------------------------------------------------------------
(* Component directories *)

\* String.prototype.toUpperCase and toLowerCase on the directory names used
UpperCase ==
    [About |-> "ABOUT", ABOUT |-> "ABOUT", Hero |-> "HERO", notes |-> "NOTES"]

LowerCase ==
    [About |-> "about", ABOUT |-> "about", Hero |-> "hero", notes |-> "notes"]

ToUpperCase(name) == UpperCase[name]

ToLowerCase(name) == LowerCase[name]

\* path.join(componentsDir, name, ${name.toLowerCase()}${ext})
ComponentFile(dirent, ext) ==
    LET f == ToLowerCase(dirent.name) \o ext
    IN  IF f \in DOMAIN dirent.files THEN dirent.files[f] ELSE NoFile

\* <!-- ${componentName.toUpperCase()} -->
Placeholder(componentName) ==
    <<"<!-- " \o ToUpperCase(componentName), " -->">>

\* readdirSync(componentsDir, {withFileTypes: true})
\*     .filter(dirent => dirent.isDirectory())
ComponentDirs(dir) == SelectSeq(dir.entries, LAMBDA d : d.isDir)

-----------------------------------------------------------------------------
(* Results of a stage's computation: a text, or an exception thrown *)

Ok(text) == [ok |-> TRUE, text |-> text]

Thrown == [ok |-> FALSE, text |-> <<>>]

\* fs.readFileSync(path, 'utf8'): throws ENOENT when the file is absent
ReadFileSync(f) == IF f.exists THEN Ok(f.data) ELSE Thrown

\* fs.writeFileSync(path.join(buildDir, name), ...) throws EACCES on a file
\* the process may not write
CanWrite(name) == name \notin readOnly

-----------------------------------------------------------------------------
(* buildHTML *)

\* the forEach body without the existsSync test: a directory without an HTML
\* file blanks its placeholder
InsertComponentOrBlank(template, dirent) ==
    LET htmlFile == ComponentFile(dirent, ".html")
    IN  IF ~template.ok THEN template
        ELSE Ok(StringReplace(template.text, Placeholder(dirent.name),
                              htmlFile.data))

\* the forEach body with a fallback: a component whose placeholder is not
\* found is appended to the page
InsertComponentOrAppend(template, dirent) ==
    LET htmlFile == ComponentFile(dirent, ".html")
        placeholder == Placeholder(dirent.name)
    IN  IF ~template.ok \/ ~ExistsSync(htmlFile) THEN template
        ELSE IF IndexOf(template.text, placeholder) = 0
        THEN Ok(template.text \o htmlFile.data)
        ELSE Ok(StringReplace(template.text, placeholder, htmlFile.data))

\* one pass of the forEach body over a component directory
InsertComponent(template, dirent) ==
    LET htmlFile == ComponentFile(dirent, ".html")
        componentHtml == ReadFileSync(htmlFile)
    IN  IF ~template.ok THEN template
        ELSE IF ExistsSync(htmlFile)
        THEN IF componentHtml.ok
             THEN Ok(StringReplace(template.text, Placeholder(dirent.name),
                                   componentHtml.text))
             ELSE Thrown
        ELSE template

\* the template after the first n component directories have been processed
RECURSIVE MergeHTML(_, _, _)
MergeHTML(template, dirs, n) ==
    IF n = 0 THEN template
    ELSE InsertComponent(MergeHTML(template, dirs, n - 1), dirs[n])

\* a buildHTML that takes an absent template for an empty one
MergedHTMLTolerant(tplFile, dir) ==
    IF ~dir.exists THEN Thrown
    ELSE MergeHTML(Ok(tplFile.data), ComponentDirs(dir),
                   Len(ComponentDirs(dir)))

\* the text buildHTML writes to build/index.html, or the exception it throws
MergedHTML(tplFile, dir) ==
    IF ~ReadFileSync(tplFile).ok \/ ~dir.exists THEN Thrown
    ELSE MergeHTML(ReadFileSync(tplFile), ComponentDirs(dir),
                   Len(ComponentDirs(dir)))

-----------------------------------------------------------------------------
(* buildCSS and buildJS *)

CoreStyleList ==
    <<"variables.css", "reset.css", "typography.css", "layout.css",
      "utilities.css">>

CoreScriptList == <<"utils.js", "main.js">>

\* combined += fs.readFileSync(filePath, 'utf8') + '\n', when the file exists
AppendCoreFile(combined, file) ==
    IF ~combined.ok THEN combined
    ELSE IF ExistsSync(file)
    THEN IF ReadFileSync(file).ok
         THEN Ok(combined.text \o ReadFileSync(file).text \o <<"\n">>)
         ELSE Thrown
    ELSE combined

\* the core files of list, the first n of them, in list order
RECURSIVE AppendCore(_, _, _, _)
AppendCore(combined, coreDir, list, n) ==
    IF n = 0 THEN combined
    ELSE AppendCoreFile(AppendCore(combined, coreDir, list, n - 1),
                        coreDir[list[n]])

\* a banner that names the component by its file name
StyleBannerLowerCase(componentName) ==
    <<"/* " \o ToLowerCase(componentName) \o " Component Styles */", "\n">>

\* /* ${componentName} Component Styles */\n
StyleBanner(componentName) ==
    <<"/* " \o componentName \o " Component Styles */", "\n">>

\* /* ${componentName} Component Script */\n
ScriptBanner(componentName) ==
    <<"/* " \o componentName \o " Component Script */", "\n">>

Banner(componentName, ext) ==
    IF ext = ".css" THEN StyleBanner(componentName)
    ELSE ScriptBanner(componentName)

\* the forEach body over a component directory, for its .css or .js file
AppendComponentFile(combined, dirent, ext) ==
    LET file == ComponentFile(dirent, ext)
    IN  IF ~combined.ok THEN combined
        ELSE IF ExistsSync(file)
        THEN IF ReadFileSync(file).ok
             THEN Ok(combined.text \o Banner(dirent.name, ext)
                     \o ReadFileSync(file).text \o <<"\n">>)
             ELSE Thrown
        ELSE combined

RECURSIVE AppendComponents(_, _, _, _)
AppendComponents(combined, dirs, ext, n) ==
    IF n = 0 THEN combined
    ELSE AppendComponentFile(AppendComponents(combined, dirs, ext, n - 1),
                             dirs[n], ext)

\* the two loops in the other order: the components first
CombineComponentsFirst(coreDir, list, dir, ext) ==
    IF ~dir.exists THEN Thrown
    ELSE AppendCore(AppendComponents(Ok(<<>>), ComponentDirs(dir), ext,
                                     Len(ComponentDirs(dir))),
                    coreDir, list, Len(list))

\* core files first, then the components in listing order
Combine(coreDir, list, dir, ext) ==
    IF ~dir.exists THEN Thrown
    ELSE AppendComponents(AppendCore(Ok(<<>>), coreDir, list, Len(list)),
                          ComponentDirs(dir), ext, Len(ComponentDirs(dir)))

\* the text buildCSS writes to build/styles.css
CombinedCSS(coreDir, dir) == Combine(coreDir, CoreStyleList, dir, ".css")

\* the text buildJS writes to build/scripts.js
CombinedJS(coreDir, dir) == Combine(coreDir, CoreScriptList, dir, ".js")

-----------------------------------------------------------------------------
(* copyAssets *)

\* a copy that appends to a destination file that is there already
RECURSIVE CopyFilesAppending(_, _, _)
CopyFilesAppending(entries, dest, n) ==
    IF n = 0 THEN [ok |-> TRUE, files |-> dest]
    ELSE LET before == CopyFilesAppending(entries, dest, n - 1)
         IN  IF ~before.ok THEN before
             ELSE IF entries[n].isDir
             THEN [ok |-> FALSE, files |-> before.files]
             ELSE [ok |-> TRUE,
                   files |-> [before.files EXCEPT
                                 ![entries[n].name] =
                                     File(@.data \o entries[n].data)]]

\* a copy that leaves alone a destination file that is there already
RECURSIVE CopyFilesNoClobber(_, _, _)
CopyFilesNoClobber(entries, dest, n) ==
    IF n = 0 THEN [ok |-> TRUE, files |-> dest]
    ELSE LET before == CopyFilesNoClobber(entries, dest, n - 1)
         IN  IF ~before.ok THEN before
             ELSE IF entries[n].isDir
             THEN [ok |-> FALSE, files |-> before.files]
             ELSE IF before.files[entries[n].name].exists THEN before
             ELSE [ok |-> TRUE,
                   files |-> [before.files EXCEPT
                                 ![entries[n].name] = File(entries[n].data)]]

\* fs.copyFileSync(src, dest) for the first n entries of a source directory,
\* in listing order.  It throws on an entry that is a directory (EISDIR), and
\* the entries after it are not copied.
RECURSIVE CopyFiles(_, _, _)
CopyFiles(entries, dest, n) ==
    IF n = 0 THEN [ok |-> TRUE, files |-> dest]
    ELSE LET before == CopyFiles(entries, dest, n - 1)
         IN  IF ~before.ok THEN before
             ELSE IF entries[n].isDir
             THEN [ok |-> FALSE, files |-> before.files]
             ELSE [ok |-> TRUE,
                   files |-> [before.files EXCEPT
                                 ![entries[n].name] = File(entries[n].data)]]

\* a copy that mirrors the source: the destination directory is emptied first
CopyDirMirroring(srcDir, destDir) ==
    IF ~srcDir.exists THEN [ok |-> TRUE, dir |-> destDir]
    ELSE LET copied == CopyFiles(srcDir.entries,
                                 [n \in DOMAIN destDir.files |-> NoFile],
                                 Len(srcDir.entries))
         IN  [ok |-> copied.ok,
              dir |-> [exists |-> TRUE, files |-> copied.files]]

\* one of the two blocks "Copy images" / "Copy fonts": the destination
\* directory after it, and whether it threw
CopyDir(srcDir, destDir) ==
    IF ~srcDir.exists THEN [ok |-> TRUE, dir |-> destDir]
    ELSE LET copied == CopyFiles(srcDir.entries, destDir.files,
                                 Len(srcDir.entries))
         IN  [ok |-> copied.ok,
              dir |-> [exists |-> TRUE, files |-> copied.files]]

-----------------------------------------------------------------------------
(* updateAssetPaths *)

\* str.replace(/re/g, replacement) for a regular expression that is a choice
\* of literals, of which at most one matches at a position
RECURSIVE ReplaceAnyFrom(_, _, _, _)
ReplaceAnyFrom(str, pats, replacement, i) ==
    IF i > Len(str) THEN <<>>
    ELSE IF \E pat \in pats : OccursAt(str, pat, i)
    THEN LET pat == CHOOSE q \in pats : OccursAt(str, q, i)
         IN  replacement \o ReplaceAnyFrom(str, pats, replacement, i + Len(pat))
    ELSE <<str[i]>> \o ReplaceAnyFrom(str, pats, replacement, i + 1)

\* /src="core\/assets\/images\//g and /href="core\/assets\/images\//g
HtmlPathPattern(attr) == {<<attr, "core/assets/images", "/">>}

HtmlPathReplacement(attr) == <<attr, "build/assets/images", "/">>

\* /url\(['"]?core\/assets\/images\//g and the same for fonts
CssPathPattern(kind) ==
    {<<"url(", "'", "core/assets/" \o kind, "/">>,
     <<"url(", "\"", "core/assets/" \o kind, "/">>,
     <<"url(", "core/assets/" \o kind, "/">>}

CssPathReplacement(kind) == <<"url(", "'", "build/assets/" \o kind, "/">>

\* the two replacements without the g flag: the first match only
RewriteHTMLFirstOnly(htmlContent) ==
    StringReplace(
        StringReplace(htmlContent, <<"src=\"", "core/assets/images", "/">>,
                      <<"src=\"", "build/assets/images", "/">>),
        <<"href=\"", "core/assets/images", "/">>,
        <<"href=\"", "build/assets/images", "/">>)

RewriteHTML(htmlContent) ==
    ReplaceAnyFrom(
        ReplaceAnyFrom(htmlContent, HtmlPathPattern("src=\""),
                       HtmlPathReplacement("src=\""), 1),
        HtmlPathPattern("href=\""), HtmlPathReplacement("href=\""), 1)

RewriteCSS(cssContent) ==
    ReplaceAnyFrom(
        ReplaceAnyFrom(cssContent, CssPathPattern("images"),
                       CssPathReplacement("images"), 1),
        CssPathPattern("fonts"), CssPathReplacement("fonts"), 1)

-----------------------------------------------------------------------------
(* runBuild: the stages as steps of one process *)

\* console.log(line) for each line of lines
Log(lines) == console' = console \o lines

\* an exception nobody catches ends the process
Fail == pc' = "failed"

\* lines 13-16 and the head of runBuild
StartBuild ==
    /\ pc = "start"
    /\ build' = [build EXCEPT !.exists = TRUE]
    /\ Log(<<"Starting build process...">>)
    /\ pc' = "buildHTML"
    /\ UNCHANGED <<sources, runs, page>>

\* a buildHTML whose exception is swallowed: the next stage runs all the same
BuildHTMLCaught ==
    /\ pc = "buildHTML"
    /\ LET template == MergedHTML(templateFile, componentsDir)
       IN  IF template.ok /\ CanWrite("index.html")
           THEN /\ build' = [build EXCEPT !.index = File(template.text)]
                /\ Log(<<"Building HTML...", "HTML build complete.">>)
           ELSE /\ Log(<<"Building HTML...">>)
                /\ UNCHANGED build
    /\ pc' = "buildCSS"
    /\ UNCHANGED <<sources, runs, page>>

BuildHTML ==
    /\ pc = "buildHTML"
    /\ LET template == MergedHTML(templateFile, componentsDir)
       IN  IF template.ok /\ CanWrite("index.html")
           THEN /\ build' = [build EXCEPT !.index = File(template.text)]
                /\ Log(<<"Building HTML...", "HTML build complete.">>)
                /\ pc' = "buildCSS"
           ELSE /\ Log(<<"Building HTML...">>)
                /\ Fail
                /\ UNCHANGED build
    /\ UNCHANGED <<sources, runs, page>>

\* a buildCSS that opens styles.css for appending: what a previous run wrote
\* stays in front of the new text
BuildCSSAppending ==
    /\ pc = "buildCSS"
    /\ LET combinedCSS == CombinedCSS(coreStyles, componentsDir)
           previous == IF ExistsSync(build.styles) THEN build.styles.data
                       ELSE <<>>
       IN  IF combinedCSS.ok /\ CanWrite("styles.css")
           THEN /\ build' = [build EXCEPT
                                !.styles = File(previous \o combinedCSS.text)]
                /\ Log(<<"Building CSS...", "CSS build complete.">>)
                /\ pc' = "buildJS"
           ELSE /\ Log(<<"Building CSS...">>)
                /\ Fail
                /\ UNCHANGED build
    /\ UNCHANGED <<sources, runs, page>>

\* a buildCSS that rolls the run back when it fails: the index.html that
\* buildHTML has just written is removed
BuildCSSRollingBack ==
    /\ pc = "buildCSS"
    /\ LET combinedCSS == CombinedCSS(coreStyles, componentsDir)
       IN  IF combinedCSS.ok /\ CanWrite("styles.css")
           THEN /\ build' = [build EXCEPT !.styles = File(combinedCSS.text)]
                /\ Log(<<"Building CSS...", "CSS build complete.">>)
                /\ pc' = "buildJS"
           ELSE /\ Log(<<"Building CSS...">>)
                /\ Fail
                /\ build' = [build EXCEPT !.index = NoFile]
    /\ UNCHANGED <<sources, runs, page>>

BuildCSS ==
    /\ pc = "buildCSS"
    /\ LET combinedCSS == CombinedCSS(coreStyles, componentsDir)
       IN  IF combinedCSS.ok /\ CanWrite("styles.css")
           THEN /\ build' = [build EXCEPT !.styles = File(combinedCSS.text)]
                /\ Log(<<"Building CSS...", "CSS build complete.">>)
                /\ pc' = "buildJS"
           ELSE /\ Log(<<"Building CSS...">>)
                /\ Fail
                /\ UNCHANGED build
    /\ UNCHANGED <<sources, runs, page>>

BuildJS ==
    /\ pc = "buildJS"
    /\ LET combinedJS == CombinedJS(coreScripts, componentsDir)
       IN  IF combinedJS.ok /\ CanWrite("scripts.js")
           THEN /\ build' = [build EXCEPT !.scripts = File(combinedJS.text)]
                /\ Log(<<"Building JavaScript...",
                         "JavaScript build complete.">>)
                /\ pc' = "copyAssets"
           ELSE /\ Log(<<"Building JavaScript...">>)
                /\ Fail
                /\ UNCHANGED build
    /\ UNCHANGED <<sources, runs, page>>

CopyAssets ==
    /\ pc = "copyAssets"
    /\ LET images == CopyDir(imagesDir, build.images)
           fonts == CopyDir(fontsDir, build.fonts)
       IN  IF ~images.ok
           THEN /\ build' = [build EXCEPT !.assets = TRUE,
                                          !.images = images.dir]
                /\ Log(<<"Copying assets...">>)
                /\ Fail
           ELSE IF ~fonts.ok
           THEN /\ build' = [build EXCEPT !.assets = TRUE,
                                          !.images = images.dir,
                                          !.fonts = fonts.dir]
                /\ Log(<<"Copying assets...">>)
                /\ Fail
           ELSE /\ build' = [build EXCEPT !.assets = TRUE,
                                          !.images = images.dir,
                                          !.fonts = fonts.dir]
                /\ Log(<<"Copying assets...", "Assets copied.">>)
                /\ pc' = "updateAssetPaths"
    /\ UNCHANGED <<sources, runs, page>>

UpdateAssetPaths ==
    /\ pc = "updateAssetPaths"
    /\ LET html == IF ExistsSync(build.index)
                   THEN File(RewriteHTML(ReadFileSync(build.index).text))
                   ELSE build.index
           css == IF ExistsSync(build.styles)
                  THEN File(RewriteCSS(ReadFileSync(build.styles).text))
                  ELSE build.styles
       IN  IF ExistsSync(build.index) /\ ~CanWrite("index.html")
           THEN /\ Log(<<"Updating asset paths...">>)
                /\ Fail
                /\ UNCHANGED build
           ELSE IF ExistsSync(build.styles) /\ ~CanWrite("styles.css")
           THEN /\ build' = [build EXCEPT !.index = html]
                /\ Log(<<"Updating asset paths...">>)
                /\ Fail
           ELSE /\ build' = [build EXCEPT !.index = html, !.styles = css]
                /\ Log(<<"Updating asset paths...", "Asset paths updated.">>)
                /\ pc' = "finish"
    /\ UNCHANGED <<sources, runs, page>>

\* the tail of runBuild
FinishBuild ==
    /\ pc = "finish"
    /\ Log(<<"Build completed successfully!">>)
    /\ pc' = "done"
    /\ UNCHANGED <<sources, build, runs, page>>

\* one run of node build.js
RunBuild ==
    \/ StartBuild
    \/ BuildHTML
    \/ BuildCSS
    \/ BuildJS
    \/ CopyAssets
    \/ UpdateAssetPaths
    \/ FinishBuild

-----------------------------------------------------------------------------
(* The file systems the build is started on *)

\* the texts of at most n tokens of a set
TextsUpTo(tokens, n) == UNION {[1..k -> tokens] : k \in 0..n}

\* a component directory holding the given files
Directory(name, files) == [name |-> name, isDir |-> TRUE, files |-> files]

\* an entry of ./components that is a plain file
PlainEntry(name) ==
    [name |-> name, isDir |-> FALSE, files |-> [f \in {} |-> NoFile]]

\* the listings of the entries with pairwise distinct names, two at most
ListingsOf(entries) ==
    {<<>>} \cup {<<a>> : a \in entries}
           \cup {<<a, b>> : a, b \in {e \in entries : TRUE}}

Listings(entries) ==
    {l \in ListingsOf(entries) : Len(l) = 2 => l[1].name # l[2].name}

NoDir == [exists |-> FALSE, entries |-> <<>>]

AssetNames == {"logo.png", "icons", "body.woff"}

EmptyBuildDir == [exists |-> FALSE, files |-> [n \in AssetNames |-> NoFile]]

\* no ./build yet
EmptyBuild ==
    [exists |-> FALSE, index |-> NoFile, styles |-> NoFile, scripts |-> NoFile,
     assets |-> FALSE, images |-> EmptyBuildDir, fonts |-> EmptyBuildDir]

NoCoreStyles == [n \in {CoreStyleList[i] : i \in 1..Len(CoreStyleList)} |-> NoFile]

NoCoreScripts ==
    [n \in {CoreScriptList[i] : i \in 1..Len(CoreScriptList)} |-> NoFile]

-----------------------------------------------------------------------------
(* buildHTML on templates and component HTML files of every shape *)

MaxTemplateLen == 4

TemplateTokens == {"<!-- ABOUT", "<!-- HERO", " -->", "1"}

TemplateTexts == TextsUpTo(TemplateTokens, MaxTemplateLen)

\* contents of a component's HTML file: plain text, each replacement pattern
\* of String.prototype.replace, placeholders and a piece of one
HtmlTexts ==
    {<<>>, <<"1">>, <<"$", "&">>, <<"$", "$">>, <<"$", Grave>>, <<"$", "'">>,
     <<"$", "1">>, <<"<!-- ABOUT", " -->">>, <<"<!-- HERO", " -->">>,
     <<"<!-- HERO">>}

HtmlFiles == {NoFile} \cup {File(t) : t \in HtmlTexts}

HtmlDirNames == {"About", "ABOUT", "Hero"}

HtmlDirectories ==
    {Directory(n, (ToLowerCase(n) \o ".html") :> h) :
        n \in HtmlDirNames, h \in HtmlFiles}

InitHTML ==
    /\ templateFile \in {NoFile} \cup {File(t) : t \in TemplateTexts}
    /\ componentsDir \in
           {[exists |-> TRUE, entries |-> l] : l \in Listings(HtmlDirectories)}
    /\ coreStyles = NoCoreStyles
    /\ coreScripts = NoCoreScripts
    /\ imagesDir = NoDir
    /\ fontsDir = NoDir
    /\ build = EmptyBuild
    /\ readOnly = {}
    /\ pc = "start"
    /\ console = <<>>
    /\ runs = 1
    /\ page = NoPage

NextHTML == StartBuild \/ BuildHTML

SpecHTML == InitHTML /\ [][NextHTML]_vars

-----------------------------------------------------------------------------
(* The core files and the component files, present or absent in every        *)
(* combination                                                               *)

\* the contents of a core file, told apart by the file's name
CoreFiles(list) ==
    [{list[i] : i \in 1..Len(list)} -> {NoFile}]
        \cup {[n \in {list[i] : i \in 1..Len(list)} |->
                  IF n \in present THEN File(<<n>>) ELSE NoFile] :
              present \in SUBSET {list[i] : i \in 1..Len(list)}}

FileDirNames == {"About", "Hero"}

FileDirectories ==
    {Directory(n, (ToLowerCase(n) \o ".html") :> h
                  @@ (ToLowerCase(n) \o ".css") :> c
                  @@ (ToLowerCase(n) \o ".js") :> j) :
        n \in FileDirNames,
        h \in {NoFile, File(<<"1">>)},
        c \in {NoFile, File(<<"a">>), File(<<"b">>)},
        j \in {NoFile, File(<<"f">>)}}

InitFiles ==
    /\ templateFile \in {NoFile, File(<<"<!-- ABOUT", " -->", "1">>)}
    /\ componentsDir \in
           {[exists |-> TRUE, entries |-> l] : l \in Listings(FileDirectories)}
    /\ coreStyles \in CoreFiles(CoreStyleList)
    /\ coreScripts \in CoreFiles(CoreScriptList)
    /\ imagesDir = NoDir
    /\ fontsDir = NoDir
    /\ build = EmptyBuild
    /\ readOnly = {}
    /\ pc = "start"
    /\ console = <<>>
    /\ runs = 1
    /\ page = NoPage

SpecFiles == InitFiles /\ [][RunBuild]_vars

-----------------------------------------------------------------------------
(* Runs of the build, one after another, on sources that change in between *)

MaxRuns == 2

SampleTemplates ==
    {<<"<!-- ABOUT", " -->", "src=\"", "core/assets/images", "/", "logo.png">>,
     <<"href=\"", "core/assets/images", "-extra/", "<!-- HERO", " -->">>}

SampleTemplateFiles == {NoFile} \cup {File(t) : t \in SampleTemplates}

\* what a component directory may hold: nothing, its HTML file alone, or its
\* three files
SampleEntries ==
    {PlainEntry("notes"),
     Directory("About", "about.html" :> NoFile @@ "about.css" :> NoFile
                        @@ "about.js" :> NoFile),
     Directory("About", "about.html" :> File(<<"1">>) @@ "about.css" :> NoFile
                        @@ "about.js" :> NoFile),
     Directory("About", "about.html" :> File(<<"1">>)
                        @@ "about.css" :>
                               File(<<"url(", "\"", "core/assets/fonts", "/">>)
                        @@ "about.js" :> File(<<"f">>))}

SampleComponentDirs ==
    {NoDir} \cup {[exists |-> TRUE, entries |-> l] : l \in Listings(SampleEntries)}

SampleCoreStyles ==
    {NoCoreStyles,
     [NoCoreStyles EXCEPT
         !["variables.css"] = File(<<"url(", "'", "core/assets/images", "/">>),
         !["layout.css"] = File(<<"a">>)]}

SampleCoreScripts ==
    {NoCoreScripts, [NoCoreScripts EXCEPT !["main.js"] = File(<<"m">>)]}

\* an entry of an asset directory: a file with its bytes, or a subdirectory
AssetFile(name, data) == [name |-> name, isDir |-> FALSE, data |-> data]

AssetSubdir(name) == [name |-> name, isDir |-> TRUE, data |-> <<>>]

SampleImageDirs ==
    {NoDir}
    \cup {[exists |-> TRUE, entries |-> l] :
            l \in {<<>>,
                   <<AssetFile("logo.png", <<"p">>)>>,
                   <<AssetFile("logo.png", <<"q">>)>>,
                   <<AssetFile("logo.png", <<"p">>), AssetSubdir("icons")>>,
                   <<AssetSubdir("icons"), AssetFile("logo.png", <<"q">>)>>}}

SampleFontDirs ==
    {NoDir, [exists |-> TRUE, entries |-> <<AssetFile("body.woff", <<"w">>)>>]}

Init ==
    /\ templateFile \in SampleTemplateFiles
    /\ componentsDir \in SampleComponentDirs
    /\ coreStyles \in SampleCoreStyles
    /\ coreScripts \in SampleCoreScripts
    /\ imagesDir \in SampleImageDirs
    /\ fontsDir \in SampleFontDirs
    /\ build = EmptyBuild
    /\ readOnly = {}
    /\ pc = "start"
    /\ console = <<>>
    /\ runs = 1
    /\ page = NoPage

Stopped == pc \in {"done", "failed"}

\* node build.js is started again: a new process, with an empty console
StartAgain ==
    /\ Stopped
    /\ runs < MaxRuns
    /\ runs' = runs + 1
    /\ pc' = "start"
    /\ console' = <<>>
    /\ UNCHANGED <<build, page>>

\* the same sources are built again
Rerun ==
    /\ StartAgain
    /\ UNCHANGED sources

\* the template is written, or removed, and the sources are built again
EditTemplate ==
    /\ StartAgain
    /\ templateFile' \in SampleTemplateFiles \ {templateFile}
    /\ UNCHANGED <<componentsDir, coreStyles, coreScripts, imagesDir, fontsDir,
                   readOnly>>

\* component directories are added, removed, renamed or their files changed
EditComponents ==
    /\ StartAgain
    /\ componentsDir' \in SampleComponentDirs \ {componentsDir}
    /\ UNCHANGED <<templateFile, coreStyles, coreScripts, imagesDir, fontsDir,
                   readOnly>>

EditCore ==
    /\ StartAgain
    /\ coreStyles' \in SampleCoreStyles
    /\ coreScripts' \in SampleCoreScripts
    /\ <<coreStyles', coreScripts'>> # <<coreStyles, coreScripts>>
    /\ UNCHANGED <<templateFile, componentsDir, imagesDir, fontsDir, readOnly>>

\* asset files are added, changed or removed
EditAssets ==
    /\ StartAgain
    /\ imagesDir' \in SampleImageDirs
    /\ fontsDir' \in SampleFontDirs
    /\ <<imagesDir', fontsDir'>> # <<imagesDir, fontsDir>>
    /\ UNCHANGED <<templateFile, componentsDir, coreStyles, coreScripts,
                   readOnly>>

\* chmod on the files a previous run has written
Protect ==
    /\ StartAgain
    /\ readOnly' \in SUBSET ({n \in {"index.html"} : build.index.exists}
                             \cup {n \in {"styles.css"} : build.styles.exists}
                             \cup {n \in {"scripts.js"} : build.scripts.exists})
    /\ readOnly' # readOnly
    /\ UNCHANGED <<templateFile, componentsDir, coreStyles, coreScripts,
                   imagesDir, fontsDir>>

Next ==
    \/ RunBuild
    \/ Rerun
    \/ EditTemplate
    \/ EditComponents
    \/ EditCore
    \/ EditAssets
    \/ Protect

Spec == Init /\ [][Next]_vars

-----------------------------------------------------------------------------
(* Properties of buildHTML *)

\* buildHTML has returned and no later stage has run
HtmlBuilt == pc = "buildCSS"

Dirs == ComponentDirs(componentsDir)

HasHtml(dirent) == ComponentFile(dirent, ".html").exists

HtmlOf(dirent) == ComponentFile(dirent, ".html").data

\* the text before the i-th component directory is processed
Assembled(i) == MergeHTML(Ok(templateFile.data), Dirs, i - 1).text

\* str with the occurrence of pat at position p replaced by text, as written
Spliced(str, pat, p, text) ==
    SubSeq(str, 1, p - 1) \o text \o SubSeq(str, p + Len(pat), Len(str))

Without(seq, i) == SubSeq(seq, 1, i - 1) \o SubSeq(seq, i + 1, Len(seq))

\* a text without replacement patterns and without pieces of placeholders
IsPlain(text) == \A k \in 1..Len(text) : text[k] = "1"

AllPlain == \A i \in 1..Len(Dirs) : HasHtml(Dirs[i]) => IsPlain(HtmlOf(Dirs[i]))

\* the component directories with an HTML file whose placeholder is ph
Providers(ph) ==
    {i \in 1..Len(Dirs) : HasHtml(Dirs[i]) /\ Placeholder(Dirs[i].name) = ph}

Placeholders == {Placeholder(n) : n \in DOMAIN UpperCase}

\* C2: with one component directory N holding n.html and a template in which
\* the placeholder of N occurs once, build/index.html is the template with the
\* placeholder replaced by the contents of n.html.
C2_PlaceholderReplacedByContents ==
    (HtmlBuilt /\ Len(Dirs) = 1 /\ HasHtml(Dirs[1])
       /\ Count(templateFile.data, Placeholder(Dirs[1].name)) = 1)
    => build.index.data =
           Spliced(templateFile.data, Placeholder(Dirs[1].name),
                   IndexOf(templateFile.data, Placeholder(Dirs[1].name)),
                   HtmlOf(Dirs[1]))

\* C3 as claimed: with plain component contents, no occurrence of the
\* placeholder of a component that has an HTML file remains in
\* build/index.html, however many the template holds.
C3_EveryOccurrenceReplaced ==
    (HtmlBuilt /\ AllPlain)
    => \A i \in 1..Len(Dirs) :
           HasHtml(Dirs[i])
           => Count(build.index.data, Placeholder(Dirs[i].name)) = 0

\* C3 as amended: each component directory with an HTML file substitutes one
\* occurrence at most, the first one of the text assembled so far: the text
\* before and the text after that occurrence are kept as they are.  Of the k
\* occurrences of a placeholder in the template at least k - d remain in
\* build/index.html, d being the number of directories with an HTML file
\* that have this placeholder.
C3_OneOccurrencePerDirectory ==
    HtmlBuilt
    => /\ \A ph \in Placeholders :
              Count(build.index.data, ph)
                  >= Count(templateFile.data, ph) - Cardinality(Providers(ph))
       /\ \A i \in 1..Len(Dirs) :
              LET ph == Placeholder(Dirs[i].name)
                  p == IndexOf(Assembled(i), ph)
              IN  (HasHtml(Dirs[i]) /\ p # 0)
                  => /\ IsPrefix(SubSeq(Assembled(i), 1, p - 1),
                                 Assembled(i + 1))
                     /\ IsSuffix(SubSeq(Assembled(i), p + Len(ph),
                                        Len(Assembled(i))),
                                 Assembled(i + 1))
                     /\ Len(Assembled(i + 1)) >= Len(Assembled(i)) - Len(ph)

C3_Witness ==
    /\ HtmlBuilt
    /\ AllPlain
    /\ \E i \in 1..Len(Dirs) :
           /\ HasHtml(Dirs[i])
           /\ Count(templateFile.data, Placeholder(Dirs[i].name)) = 2
           /\ Count(build.index.data, Placeholder(Dirs[i].name)) = 1

\* C4: the text put in place of a placeholder is the contents of the
\* component's HTML file as written, whatever the contents.
C4_RawContentsInserted ==
    HtmlBuilt
    => /\ build.index.data = Assembled(Len(Dirs) + 1)
       /\ \A i \in 1..Len(Dirs) :
              LET ph == Placeholder(Dirs[i].name)
                  p == IndexOf(Assembled(i), ph)
              IN  (HasHtml(Dirs[i]) /\ p # 0)
                  => Assembled(i + 1) =
                         Spliced(Assembled(i), ph, p, HtmlOf(Dirs[i]))

\* C5: a placeholder of the template that no component directory with an
\* HTML file has is left in build/index.html, every occurrence of it, and
\* buildHTML throws only when the template is absent.
C5_UnmatchedPlaceholderKept ==
    /\ (pc = "failed" /\ componentsDir.exists /\ CanWrite("index.html"))
           => ~templateFile.exists
    /\ HtmlBuilt
       => \A ph \in Placeholders :
              Providers(ph) = {}
              => Count(build.index.data, ph) >= Count(templateFile.data, ph)

C5_Witness ==
    /\ HtmlBuilt
    /\ build.index.data # templateFile.data
    /\ \E ph \in Placeholders :
           /\ Providers(ph) = {}
           /\ Count(templateFile.data, ph) >= 1
           /\ \E i \in 1..Len(Dirs) : Placeholder(Dirs[i].name) = ph

\* C6 as claimed: a component directory whose placeholder does not occur in
\* the template can be omitted without changing build/index.html.
C6_NoPlaceholderNoEffect ==
    HtmlBuilt
    => \A i \in 1..Len(Dirs) :
           Count(templateFile.data, Placeholder(Dirs[i].name)) = 0
           => build.index.data =
                  MergeHTML(Ok(templateFile.data), Without(Dirs, i),
                            Len(Dirs) - 1).text

\* C6 as amended: a component directory whose placeholder does not occur in
\* the text assembled so far when its turn comes (the template with the
\* substitutions of the directories listed before it) can be omitted without
\* changing build/index.html.
C6_NoPlaceholderInAssembledNoEffect ==
    HtmlBuilt
    => \A i \in 1..Len(Dirs) :
           Count(Assembled(i), Placeholder(Dirs[i].name)) = 0
           => build.index.data =
                  MergeHTML(Ok(templateFile.data), Without(Dirs, i),
                            Len(Dirs) - 1).text

C6_Witness ==
    /\ HtmlBuilt
    /\ Len(Dirs) = 2
    /\ build.index.data # templateFile.data
    /\ \E i \in 1..Len(Dirs) :
           /\ HasHtml(Dirs[i])
           /\ HtmlOf(Dirs[i]) # <<>>
           /\ Count(Assembled(i), Placeholder(Dirs[i].name)) = 0

-----------------------------------------------------------------------------
(* Properties of runBuild *)

\* what a run that completes prints
FullLog ==
    <<"Starting build process...",
      "Building HTML...", "HTML build complete.",
      "Building CSS...", "CSS build complete.",
      "Building JavaScript...", "JavaScript build complete.",
      "Copying assets...", "Assets copied.",
      "Updating asset paths...", "Asset paths updated.",
      "Build completed successfully!">>

StageStarts ==
    {"Building HTML...", "Building CSS...", "Building JavaScript...",
     "Copying assets...", "Updating asset paths..."}

\* how many lines are printed when runBuild is about to call each stage
LinesBefore ==
    [start |-> 0, buildHTML |-> 1, buildCSS |-> 3, buildJS |-> 5,
     copyAssets |-> 7, updateAssetPaths |-> 9, finish |-> 11, done |-> 12]

\* C1: in every run the stages run at most once each, in the order buildHTML,
\* buildCSS, buildJS, copyAssets, updateAssetPaths, each one started after
\* the one before it has returned; a stage that throws is the last one to
\* run: the run prints nothing more and writes nothing more.
C1_StagesInOrder ==
    /\ [](/\ IsPrefix(console, FullLog)
          /\ pc # "failed" => Len(console) = LinesBefore[pc]
          /\ pc = "failed" => /\ console # <<>>
                              /\ console[Len(console)] \in StageStarts)
    /\ [][pc = "failed" => pc' = "start" /\ build' = build]_vars

C1_Witness ==
    /\ pc = "failed"
    /\ console[Len(console)] = "Copying assets..."
    /\ build.scripts.exists

\* C10: with the template absent buildHTML throws, the run ends there, and
\* nothing under build is written or changed by the run.
C10_AbsentTemplateAborts ==
    /\ [][(pc = "buildHTML" /\ ~templateFile.exists)
              => (pc' = "failed" /\ build' = build)]_vars
    /\ [][pc = "failed" => build' = build]_vars
    /\ [][pc = "start" => [build' EXCEPT !.exists = build.exists] = build]_vars
    /\ []((pc = "failed" /\ ~templateFile.exists)
              => console = <<"Starting build process...", "Building HTML...">>)
    /\ []((~templateFile.exists /\ pc \notin {"start", "buildHTML"})
              => pc = "failed")

C10_Witness ==
    /\ pc = "failed"
    /\ ~templateFile.exists
    /\ build.index.exists
    /\ build.styles.exists
    /\ build.images.files["logo.png"].exists

-----------------------------------------------------------------------------
(* Properties of buildCSS and buildJS *)

\* buildCSS has returned and no later stage has run
CssBuilt == pc = "buildJS"

\* buildJS has returned and no later stage has run
JsBuilt == pc = "copyAssets"

\* what a core file contributes: its contents and a newline
CoreSection(file) == IF file.exists THEN file.data \o <<"\n">> ELSE <<>>

CoreSections(coreDir, list) ==
    Concat([i \in 1..Len(list) |-> CoreSection(coreDir[list[i]])])

\* what a component contributes: a banner, its contents and a newline
ComponentSection(dirent, ext, kind) ==
    IF ComponentFile(dirent, ext).exists
    THEN <<"/* " \o dirent.name \o " Component " \o kind \o " */", "\n">>
         \o ComponentFile(dirent, ext).data \o <<"\n">>
    ELSE <<>>

ComponentSections(dirs, ext, kind) ==
    Concat([i \in 1..Len(dirs) |-> ComponentSection(dirs[i], ext, kind)])

\* the orders a directory listing of the same entries can have
Reorderings(seq) ==
    {[i \in 1..Len(seq) |-> seq[f[i]]] :
        f \in {g \in [1..Len(seq) -> 1..Len(seq)] :
                  \A a, b \in 1..Len(seq) : a # b => g[a] # g[b]}}

Relisted(entries) == [exists |-> TRUE, entries |-> entries]

\* the part of text after its first n tokens
After(text, n) == SubSeq(text, n + 1, Len(text))

\* C7: the core files come first, in the order of the list, and the
\* components' files follow in directory-listing order; listing the
\* components in another order reorders their sections in the same way and
\* leaves the core part in front.
C7_CoreThenComponentsInListingOrder ==
    /\ CssBuilt
       => LET core == CoreSections(coreStyles, CoreStyleList)
          IN  /\ IsPrefix(core, build.styles.data)
              /\ After(build.styles.data, Len(core))
                     = ComponentSections(Dirs, ".css", "Styles")
              /\ \A l \in Reorderings(componentsDir.entries) :
                     CombinedCSS(coreStyles, Relisted(l)).text
                         = core \o ComponentSections(ComponentDirs(Relisted(l)),
                                                     ".css", "Styles")
    /\ JsBuilt
       => LET core == CoreSections(coreScripts, CoreScriptList)
          IN  /\ IsPrefix(core, build.scripts.data)
              /\ After(build.scripts.data, Len(core))
                     = ComponentSections(Dirs, ".js", "Script")
              /\ \A l \in Reorderings(componentsDir.entries) :
                     CombinedJS(coreScripts, Relisted(l)).text
                         = core \o ComponentSections(ComponentDirs(Relisted(l)),
                                                     ".js", "Script")

C7_Witness ==
    /\ JsBuilt
    /\ Len(Dirs) = 2
    /\ \A i \in 1..2 : /\ ComponentFile(Dirs[i], ".css").exists
                       /\ ComponentFile(Dirs[i], ".js").exists
    /\ ComponentFile(Dirs[1], ".css") # ComponentFile(Dirs[2], ".css")
    /\ \A n \in DOMAIN coreStyles : coreStyles[n].exists
    /\ \A n \in DOMAIN coreScripts : coreScripts[n].exists

\* the tokens of build/styles.css, one by one
StylesExpected ==
    LET core == [i \in 1..Len(CoreStyleList) |->
                    IF coreStyles[CoreStyleList[i]].exists
                    THEN coreStyles[CoreStyleList[i]].data \o <<"\n">>
                    ELSE <<>>]
        components ==
            [i \in 1..Len(Dirs) |->
                IF ComponentFile(Dirs[i], ".css").exists
                THEN <<"/* " \o Dirs[i].name \o " Component Styles */", "\n">>
                     \o ComponentFile(Dirs[i], ".css").data \o <<"\n">>
                ELSE <<>>]
    IN  Concat(core) \o Concat(components)

\* C8: build/styles.css is each existing core stylesheet followed by a
\* newline, then for each component that has name.css a banner with the
\* directory name as listed, the file's contents and a newline, and nothing
\* else; a component without name.css adds no banner.
C8_StylesExactly ==
    CssBuilt
    => /\ build.styles = File(StylesExpected)
       /\ \A i \in 1..Len(Dirs) :
              ~ComponentFile(Dirs[i], ".css").exists
              => \A k \in 1..Len(build.styles.data) :
                     build.styles.data[k]
                         # "/* " \o Dirs[i].name \o " Component Styles */"

C8_Witness ==
    /\ CssBuilt
    /\ Len(Dirs) = 2
    /\ ComponentFile(Dirs[1], ".css").exists
    /\ ~ComponentFile(Dirs[2], ".css").exists
    /\ coreStyles["reset.css"].exists
    /\ ~coreStyles["variables.css"].exists

\* the component directories that have the file of an extension
Having(ext) ==
    Relisted(SelectSeq(componentsDir.entries,
                       LAMBDA d : d.isDir /\ ComponentFile(d, ext).exists))

\* no cause of failure other than an optional file that is absent
RequiredInPlace ==
    /\ templateFile.exists
    /\ componentsDir.exists
    /\ readOnly = {}
    /\ \A k \in 1..Len(imagesDir.entries) : ~imagesDir.entries[k].isDir
    /\ \A k \in 1..Len(fontsDir.entries) : ~fontsDir.entries[k].isDir

\* C9: an optional file that is absent (a component's HTML, CSS or JS file, a
\* core stylesheet, a core script) makes no stage throw, and each output is
\* the one built from the files that are there: a component directory
\* without a file counts, for that output, as a directory that is not listed.
C9_MissingOptionalFilesTolerated ==
    /\ RequiredInPlace => pc # "failed"
    /\ HtmlBuilt
       => build.index = File(MergedHTML(templateFile, Having(".html")).text)
    /\ CssBuilt
       => build.styles = File(CombinedCSS(coreStyles, Having(".css")).text)
    /\ JsBuilt
       => build.scripts = File(CombinedJS(coreScripts, Having(".js")).text)
    /\ pc = "done" => /\ build.index.exists
                      /\ build.styles.exists
                      /\ build.scripts.exists

C9_Witness ==
    /\ pc = "done"
    /\ Len(Dirs) = 2
    /\ ~ComponentFile(Dirs[1], ".html").exists
    /\ ~ComponentFile(Dirs[1], ".css").exists
    /\ ~ComponentFile(Dirs[2], ".js").exists
    /\ ~coreStyles["typography.css"].exists
    /\ ~coreScripts["utils.js"].exists
    /\ coreScripts["main.js"].exists

-----------------------------------------------------------------------------
(* The outputs of a whole run *)

\* what a successful run leaves in the three output files, from the sources
\* alone
IndexHtmlOf(tplFile, dir) == File(RewriteHTML(MergedHTML(tplFile, dir).text))

StylesCssOf(coreDir, dir) == File(RewriteCSS(CombinedCSS(coreDir, dir).text))

ScriptsJsOf(coreDir, dir) == File(CombinedJS(coreDir, dir).text)

\* C11: after a successful run, build/index.html, build/styles.css and
\* build/scripts.js are a function of the sources alone (template, core files,
\* component files, listing order), whatever the build directory held before
\* the run: two runs on the same sources leave the same three files.
C11_OutputsFunctionOfInputs ==
    pc = "done" =>
        /\ build.index = IndexHtmlOf(templateFile, componentsDir)
        /\ build.styles = StylesCssOf(coreStyles, componentsDir)
        /\ build.scripts = ScriptsJsOf(coreScripts, componentsDir)

\* a later run has succeeded on a build directory that an earlier run had
\* filled, and the outputs are not empty
C11_Witness ==
    /\ pc = "done"
    /\ runs > 1
    /\ build.index.data # <<>>
    /\ build.styles.data # <<>>
    /\ build.scripts.data # <<>>

-----------------------------------------------------------------------------
(* The stages one at a time *)

\* the build directory b after a call of one stage on the present sources,
\* whether the call returns or throws
BuildHTMLOn(b) ==
    LET template == MergedHTML(templateFile, componentsDir)
    IN  IF template.ok /\ CanWrite("index.html")
        THEN [b EXCEPT !.index = File(template.text)]
        ELSE b

BuildCSSOn(b) ==
    LET combinedCSS == CombinedCSS(coreStyles, componentsDir)
    IN  IF combinedCSS.ok /\ CanWrite("styles.css")
        THEN [b EXCEPT !.styles = File(combinedCSS.text)]
        ELSE b

BuildJSOn(b) ==
    LET combinedJS == CombinedJS(coreScripts, componentsDir)
    IN  IF combinedJS.ok /\ CanWrite("scripts.js")
        THEN [b EXCEPT !.scripts = File(combinedJS.text)]
        ELSE b

CopyAssetsOn(b) ==
    LET images == CopyDir(imagesDir, b.images)
        fonts == CopyDir(fontsDir, b.fonts)
    IN  IF ~images.ok
        THEN [b EXCEPT !.assets = TRUE, !.images = images.dir]
        ELSE [b EXCEPT !.assets = TRUE, !.images = images.dir,
                       !.fonts = fonts.dir]

UpdateAssetPathsOn(b) ==
    LET html == IF ExistsSync(b.index)
                THEN File(RewriteHTML(ReadFileSync(b.index).text))
                ELSE b.index
        css == IF ExistsSync(b.styles)
               THEN File(RewriteCSS(ReadFileSync(b.styles).text))
               ELSE b.styles
    IN  IF ExistsSync(b.index) /\ ~CanWrite("index.html") THEN b
        ELSE IF ExistsSync(b.styles) /\ ~CanWrite("styles.css")
        THEN [b EXCEPT !.index = html]
        ELSE [b EXCEPT !.index = html, !.styles = css]

\* a step of the run is a call of its stage
StepsAreStageCalls ==
    /\ BuildHTML => build' = BuildHTMLOn(build)
    /\ BuildCSS => build' = BuildCSSOn(build)
    /\ BuildJS => build' = BuildJSOn(build)
    /\ CopyAssets => build' = CopyAssetsOn(build)
    /\ UpdateAssetPaths => build' = UpdateAssetPathsOn(build)

\* on the build directory as it is, a second call of a stage in succession
\* changes nothing
TwiceIsOnce ==
    /\ BuildHTMLOn(BuildHTMLOn(build)) = BuildHTMLOn(build)
    /\ BuildCSSOn(BuildCSSOn(build)) = BuildCSSOn(build)
    /\ BuildJSOn(BuildJSOn(build)) = BuildJSOn(build)
    /\ CopyAssetsOn(CopyAssetsOn(build)) = CopyAssetsOn(build)
    /\ UpdateAssetPathsOn(UpdateAssetPathsOn(build)) = UpdateAssetPathsOn(build)

\* the stage that has just returned, called again at once
CalledAgain ==
    /\ pc = "buildCSS" => BuildHTMLOn(build) = build
    /\ pc = "buildJS" => BuildCSSOn(build) = build
    /\ pc = "copyAssets" => BuildJSOn(build) = build
    /\ pc = "updateAssetPaths" => CopyAssetsOn(build) = build
    /\ pc = "finish" =>
          /\ UpdateAssetPathsOn(build) = build
          /\ ExistsSync(build.index) =>
                RewriteHTML(build.index.data) = build.index.data
          /\ ExistsSync(build.styles) =>
                RewriteCSS(build.styles.data) = build.styles.data

\* C12: each stage is idempotent: with the sources unchanged, calling any one
\* of buildHTML, buildCSS, buildJS, copyAssets and updateAssetPaths twice in
\* succession leaves the build directory as calling it once does, and
\* updateAssetPaths on its own output changes neither index.html nor
\* styles.css.
C12_StagesIdempotent ==
    /\ [][StepsAreStageCalls]_vars
    /\ [](TwiceIsOnce /\ CalledAgain)

\* updateAssetPaths has rewritten a path in index.html and one in styles.css,
\* after copyAssets has copied an image over the one of an earlier run
C12_Witness ==
    /\ pc = "finish"
    /\ runs > 1
    /\ build.index.data # MergedHTML(templateFile, componentsDir).text
    /\ build.styles.data # CombinedCSS(coreStyles, componentsDir).text
    /\ build.images.files["logo.png"].exists

-----------------------------------------------------------------------------
(* Builds of pages and style sheets that are full of asset paths *)

MaxPathLen == 4

HtmlPathTokens ==
    {"src=\"", "href=\"", "core/assets/images", "/", "-extra/"}

CssPathTokens ==
    {"url(", "'", "\"", "core/assets/images", "core/assets/fonts", "/"}

\* str with ins put in after its first k tokens
InsertAt(str, k, ins) ==
    SubSeq(str, 1, k) \o ins \o SubSeq(str, k + 1, Len(str))

\* templates with the placeholder of About somewhere in a text of path tokens
PathTemplates ==
    UNION {{InsertAt(h, k, Placeholder("About")) : k \in 0..Len(h)} :
              h \in TextsUpTo(HtmlPathTokens, MaxPathLen)}

\* components/About/about.html: absent, the tail of a path, or two paths
PathComponentHtml ==
    {NoFile,
     File(<<"core/assets/images", "/">>),
     File(<<"href=\"", "core/assets/images", "/", "x.png",
            "src=\"", "core/assets/images", "-extra/">>)}

\* components/About/about.css
PathComponentCss ==
    {NoFile,
     File(<<"url(", "'", "core/assets/fonts", "/", "url(", "core/assets/images",
            "/">>)}

PathComponent(html, css) ==
    [exists |-> TRUE,
     entries |-> <<Directory("About", "about.html" :> html @@ "about.css" :> css
                                      @@ "about.js" :> NoFile)>>]

\* a page full of paths, with a plain style sheet
InitHtmlPaths ==
    /\ templateFile \in {File(t) : t \in PathTemplates}
    /\ componentsDir \in {PathComponent(h, NoFile) : h \in PathComponentHtml}
    /\ coreStyles = [NoCoreStyles EXCEPT !["reset.css"] = File(<<"a">>)]

\* a style sheet full of paths, with a plain page
InitCssPaths ==
    /\ templateFile = File(<<"1">>)
    /\ componentsDir \in {PathComponent(NoFile, c) : c \in PathComponentCss}
    /\ coreStyles \in
           {[NoCoreStyles EXCEPT !["variables.css"] = File(c)] :
               c \in TextsUpTo(CssPathTokens, MaxPathLen)}

InitPaths ==
    /\ InitHtmlPaths \/ InitCssPaths
    /\ coreScripts = NoCoreScripts
    /\ imagesDir = NoDir
    /\ fontsDir = NoDir
    /\ build = EmptyBuild
    /\ readOnly = {}
    /\ pc = "start"
    /\ console = <<>>
    /\ runs = 1
    /\ page = NoPage

SpecPaths == InitPaths /\ [][RunBuild]_vars

\* updateAssetPaths has just returned
PathsUpdated == pc = "finish"

\* what buildHTML has merged, and what updateAssetPaths has made of it
MergedPage == MergedHTML(templateFile, componentsDir).text

FinalPage == build.index.data

SrcPrefix == <<"src=\"", "core/assets/images", "/">>

HrefPrefix == <<"href=\"", "core/assets/images", "/">>

\* position i of a page is the directory of one of the two source prefixes
InSourcePrefix(html, i) ==
    OccursAt(html, SrcPrefix, i - 1) \/ OccursAt(html, HrefPrefix, i - 1)

\* C13: after updateAssetPaths every occurrence of src="core/assets/images/
\* and of href="core/assets/images/ in the merged HTML, from the template or
\* from an inserted component, has become src="build/assets/images/ or
\* href="build/assets/images/, none of the two source prefixes remains, and
\* all the other text, core/assets/images-extra/ included, is unchanged.
C13_HtmlPrefixesRewritten ==
    PathsUpdated =>
        /\ Len(FinalPage) = Len(MergedPage)
        /\ \A i \in 1..Len(MergedPage) :
               FinalPage[i] = IF InSourcePrefix(MergedPage, i)
                              THEN "build/assets/images"
                              ELSE MergedPage[i]
        /\ Occurrences(FinalPage, SrcPrefix) = {}
        /\ Occurrences(FinalPage, HrefPrefix) = {}

\* a path of the template and one of the inserted component have been
\* rewritten, next to a path of images-extra
C13_Witness ==
    /\ PathsUpdated
    /\ Count(MergedPage, SrcPrefix) + Count(MergedPage, HrefPrefix) >= 2
    /\ Count(templateFile.data, SrcPrefix) + Count(templateFile.data, HrefPrefix)
           = 1
    /\ \E i \in 1..Len(FinalPage) - 1 :
           FinalPage[i] = "core/assets/images" /\ FinalPage[i + 1] = "-extra/"

\* what buildCSS has combined, and what updateAssetPaths has made of it
MergedSheet == CombinedCSS(coreStyles, componentsDir).text

FinalSheet == build.styles.data

\* the literal prefix url('core/assets/images/ or url('core/assets/fonts/
QuotedUrlPrefix(kind) == <<"url(", "'", "core/assets/" \o kind, "/">>

\* C14: in the merged CSS updateAssetPaths rewrites the literal prefixes
\* url('core/assets/images/ and url('core/assets/fonts/ only: a style sheet
\* without these two prefixes, with a double-quoted or an unquoted url of
\* core/assets for one, is build/styles.css unmodified.
C14_OnlyLiteralPrefixesRewritten ==
    (PathsUpdated /\ Occurrences(MergedSheet, QuotedUrlPrefix("images")) = {}
                  /\ Occurrences(MergedSheet, QuotedUrlPrefix("fonts")) = {})
        => FinalSheet = MergedSheet

-----------------------------------------------------------------------------
(* The copied assets *)

\* the entries of a source directory that are files
RegularEntries(srcDir) ==
    {srcDir.entries[i] : i \in {j \in 1..Len(srcDir.entries) :
                                    ~srcDir.entries[j].isDir}}

\* every file of the source directory is in the destination, byte for byte
Mirrored(srcDir, destDir) ==
    srcDir.exists =>
        /\ destDir.exists
        /\ \A e \in RegularEntries(srcDir) : destDir.files[e.name] = File(e.data)

\* C15: after a successful build every file of the images (resp. fonts) source
\* directory is under build/assets/images (resp. fonts) with the same bytes,
\* a destination file of the same name from an earlier build being
\* overwritten.
C15_AssetsCopiedByteIdentical ==
    pc = "done" =>
        /\ Mirrored(imagesDir, build.images)
        /\ Mirrored(fontsDir, build.fonts)

\* a later build has succeeded on a changed image, with a font
C15_Witness ==
    /\ pc = "done"
    /\ runs > 1
    /\ build.images.files["logo.png"] = File(<<"q">>)
    /\ build.fonts.files["body.woff"].exists
    /\ RegularEntries(imagesDir) # {}
    /\ RegularEntries(fontsDir) # {}

\* from destination directory old to new, no file is lost, and a file that
\* changes is a file of the source directory, with its bytes
OnlyGrows(srcDir, old, new) ==
    /\ old.exists => new.exists
    /\ \A n \in AssetNames :
          /\ old.files[n].exists => new.files[n].exists
          /\ new.files[n] # old.files[n] =>
                \E e \in RegularEntries(srcDir) :
                    e.name = n /\ new.files[n] = File(e.data)

\* C16: no build removes a destination asset: over source edits interleaved
\* with builds the file names under build/assets/images and build/assets/fonts
\* only grow, and a file removed from the source keeps in the destination the
\* content of the last build that copied it.
C16_AssetsNeverRemoved ==
    [][/\ OnlyGrows(imagesDir, build.images, build'.images)
       /\ OnlyGrows(fontsDir, build.fonts, build'.fonts)]_vars

\* a build has succeeded on a source directory from which the image that an
\* earlier build copied is gone
C16_Witness ==
    /\ pc = "done"
    /\ runs > 1
    /\ imagesDir.exists
    /\ RegularEntries(imagesDir) = {}
    /\ build.images.files["logo.png"].exists

\* copyAssets has been called in this run
AssetsStageCalled ==
    \E i \in 1..Len(console) : console[i] = "Copying assets..."

\* C17: copyAssets copies every file directly inside each source directory
\* that exists, as a flat list, whatever the entries are: with a subdirectory
\* among them the files at the top level are copied all the same.
C17_TopLevelFilesCopiedWhateverEntries ==
    AssetsStageCalled =>
        /\ Mirrored(imagesDir, build.images)
        /\ Mirrored(fontsDir, build.fonts)

-----------------------------------------------------------------------------
(* Runs that fail *)

\* the last line on the console: the stage a failed run has died in
LastLine == console[Len(console)]

\* a step changes no part of the build directory but the given ones
SameExcept(parts) == \A f \in DOMAIN build \ parts : build'[f] = build[f]

\* each stage writes its own files only, and nothing is written outside the
\* stages: what a stage has not reached is as the previous run left it
StagesWriteOwnFiles ==
    /\ pc = "start" => SameExcept({"exists"})
    /\ pc = "buildHTML" => SameExcept({"index"})
    /\ pc = "buildCSS" => SameExcept({"styles"})
    /\ pc = "buildJS" => SameExcept({"scripts"})
    /\ pc = "copyAssets" => SameExcept({"assets", "images", "fonts"})
    /\ pc = "updateAssetPaths" => SameExcept({"index", "styles"})
    /\ pc \in {"finish", "done", "failed"} => SameExcept({})

\* after a failure, the files of the stages that had returned hold what these
\* stages wrote in this run
EarlierStagesKept ==
    pc = "failed" =>
        LET merged == File(MergedHTML(templateFile, componentsDir).text)
            css == File(CombinedCSS(coreStyles, componentsDir).text)
            js == File(CombinedJS(coreScripts, componentsDir).text)
        IN  /\ LastLine = "Building CSS..." => build.index = merged
            /\ LastLine = "Building JavaScript..." =>
                   build.index = merged /\ build.styles = css
            /\ LastLine = "Copying assets..." =>
                   build.index = merged /\ build.styles = css
                       /\ build.scripts = js
            /\ LastLine = "Updating asset paths..." =>
                   /\ build.index \in {merged, File(RewriteHTML(merged.data))}
                   /\ build.styles = css
                   /\ build.scripts = js

\* C18: there is no rollback: when a stage fails, the files that the earlier
\* stages of the run have written keep their new content and the files that
\* only a later stage would write keep the content of the previous run, so
\* that the build directory can hold a freshly merged index.html whose asset
\* paths were never rewritten next to older files.
C18_NoRollback ==
    /\ [][StagesWriteOwnFiles]_vars
    /\ []EarlierStagesKept

\* a later run has died in buildCSS: index.html is freshly merged, its asset
\* path not rewritten, and styles.css is the rewritten one of the run before
C18_Witness ==
    /\ pc = "failed"
    /\ runs > 1
    /\ LastLine = "Building CSS..."
    /\ build.index.data = MergedHTML(templateFile, componentsDir).text
    /\ RewriteHTML(build.index.data) # build.index.data
    /\ build.styles.exists
    /\ build.styles.data # CombinedCSS(coreStyles, componentsDir).text

-----------------------------------------------------------------------------
(* The page that loads build/scripts.js *)

\* A script is a sequence of top-level statements, a token each: a function
\* declaration is the token "function " followed by the name.

\* the keys of componentInitializers, in the order of the object literal
TableNames ==
    <<"header", "hero", "about", "categories", "whyNominate", "timeline",
      "faq", "nominationForm", "footer">>

TableKeys == {TableNames[i] : i \in 1..Len(TableNames)}

\* the function each key is looked up by
InitializerOf ==
    [header |-> "initHeader", hero |-> "initHero", about |-> "initAbout",
     categories |-> "initCategories", whyNominate |-> "initWhyNominate",
     timeline |-> "initTimeline", faq |-> "initFAQ",
     nominationForm |-> "initNominationForm", footer |-> "initFooter"]

\* the functions the handler calls after the components
GlobalInitializers ==
    <<"initBackToTop", "initCookieConsent", "initModalHandlers",
      "updateCopyrightYear">>

FunctionNames ==
    {InitializerOf[n] : n \in TableKeys}
        \cup {GlobalInitializers[i] : i \in 1..Len(GlobalInitializers)}

\* core/scripts/utils.js, core/scripts/main.js and the scripts of the
\* components Hero and About
UtilsScript == <<"const DOM", "const Animation", "const Validation", "const Utils">>

MainScript ==
    <<"const componentInitializers", "document.addEventListener",
      "function initBackToTop", "function initCookieConsent",
      "function initModalHandlers", "function updateCopyrightYear">>

HeroScript == <<"function initHero", "const style", "document.head.appendChild">>

AboutScript == <<"function initAbout">>

\* the functions that statement i of a script sees when the declarations of
\* the script that follow it are not yet bound
DeclaredAbove(script, i) ==
    {f \in FunctionNames : \E j \in 1..(i - 1) : script[j] = "function " \o f}

\* the functions that statement i of a script sees: the function declarations
\* of the whole script are bound before its first statement runs
Hoisted(script, i) ==
    {f \in FunctionNames : \E j \in 1..Len(script) : script[j] = "function " \o f}

\* the keys of componentInitializers whose value is a function, the others
\* being null: typeof initX === 'function' ? initX : null, at statement i
TableAt(script, i) == {n \in TableKeys : InitializerOf[n] \in Hoisted(script, i)}

\* the page after the script has run: the table, and whether the handler of
\* DOMContentLoaded is registered
Evaluate(script) ==
    LET at == {i \in 1..Len(script) : script[i] = "const componentInitializers"}
    IN  [table |-> IF at = {} THEN {}
                   ELSE TableAt(script, CHOOSE i \in at : \A j \in at : i <= j),
         listening |-> \E i \in 1..Len(script) :
                           script[i] = "document.addEventListener"]

LogLine(name) == [level |-> "log", line |-> "Initialized " \o name \o " component"]

ErrorLine(name) ==
    [level |-> "error", line |-> "Error initializing " \o name \o " component:"]

\* the forEach over the first n entries of the table, were there no try and
\* catch around the call: the first exception ends the handler
RECURSIVE InitializeUncaught(_, _, _)
InitializeUncaught(table, throwing, n) ==
    IF n = 0 THEN [stopped |-> FALSE, calls |-> <<>>, log |-> <<>>]
    ELSE LET before == InitializeUncaught(table, throwing, n - 1)
             name == TableNames[n]
         IN  IF before.stopped \/ name \notin table THEN before
             ELSE IF InitializerOf[name] \in throwing
             THEN [stopped |-> TRUE,
                   calls |-> before.calls \o <<InitializerOf[name]>>,
                   log |-> before.log]
             ELSE [stopped |-> FALSE,
                   calls |-> before.calls \o <<InitializerOf[name]>>,
                   log |-> before.log \o <<LogLine(name)>>]

\* the forEach over the first n entries of the table: the calls made and the
\* lines printed, the initializers of throwing being those that throw
RECURSIVE Initialize(_, _, _)
Initialize(table, throwing, n) ==
    IF n = 0 THEN [calls |-> <<>>, log |-> <<>>]
    ELSE LET before == Initialize(table, throwing, n - 1)
             name == TableNames[n]
         IN  IF name \notin table THEN before
             ELSE IF InitializerOf[name] \in throwing
             THEN [calls |-> before.calls \o <<InitializerOf[name]>>,
                   log |-> before.log \o <<ErrorLine(name)>>]
             ELSE [calls |-> before.calls \o <<InitializerOf[name]>>,
                   log |-> before.log \o <<LogLine(name)>>]

\* the handler without its try and catch
HandlerUncaught(table, aos, throwing) ==
    LET components == InitializeUncaught(table, throwing, Len(TableNames))
    IN  [calls |-> (IF aos THEN <<"AOS.init">> ELSE <<>>) \o components.calls
                       \o (IF components.stopped THEN <<>>
                           ELSE GlobalInitializers),
         log |-> components.log]

\* the handler of DOMContentLoaded, from its first line to its last
Handler(table, aos, throwing) ==
    LET components == Initialize(table, throwing, Len(TableNames))
    IN  [calls |-> (IF aos THEN <<"AOS.init">> ELSE <<>>) \o components.calls
                       \o GlobalInitializers,
         log |-> components.log]

\* the browser runs build/scripts.js of a finished build; the AOS library may
\* or may not have been loaded before it
LoadPage ==
    /\ pc = "done"
    /\ ~page.loaded
    /\ ExistsSync(build.scripts)
    /\ \E aos \in BOOLEAN :
           page' = [page EXCEPT
                       !.loaded = TRUE,
                       !.table = Evaluate(build.scripts.data).table,
                       !.listening = Evaluate(build.scripts.data).listening,
                       !.aos = aos]
    /\ UNCHANGED <<sources, build, pc, console, runs>>

\* the document has been parsed: the event fires, once
DOMContentLoaded ==
    /\ page.loaded
    /\ ~page.fired
    /\ IF page.listening
       THEN \E throwing \in SUBSET {InitializerOf[n] : n \in page.table} :
                LET handled == Handler(page.table, page.aos, throwing)
                IN  page' = [page EXCEPT !.fired = TRUE,
                                         !.calls = handled.calls,
                                         !.log = handled.log]
       ELSE page' = [page EXCEPT !.fired = TRUE]
    /\ UNCHANGED <<sources, build, pc, console, runs>>

\* the component directories of the site: Hero and About with or without a
\* script, About also with a script that declares no initializer
PageEntries ==
    {PlainEntry("notes"),
     Directory("Hero", "hero.html" :> NoFile @@ "hero.css" :> NoFile
                       @@ "hero.js" :> NoFile),
     Directory("Hero", "hero.html" :> NoFile @@ "hero.css" :> NoFile
                       @@ "hero.js" :> File(HeroScript)),
     Directory("About", "about.html" :> NoFile @@ "about.css" :> NoFile
                        @@ "about.js" :> NoFile),
     Directory("About", "about.html" :> NoFile @@ "about.css" :> NoFile
                        @@ "about.js" :> File(AboutScript)),
     Directory("About", "about.html" :> NoFile @@ "about.css" :> NoFile
                        @@ "about.js" :> File(<<"const about">>))}

PageCoreScripts ==
    {[NoCoreScripts EXCEPT !["utils.js"] = File(UtilsScript),
                           !["main.js"] = File(MainScript)],
     [NoCoreScripts EXCEPT !["utils.js"] = File(UtilsScript)]}

InitPage ==
    /\ templateFile = File(<<"1">>)
    /\ componentsDir \in
           {[exists |-> TRUE, entries |-> l] : l \in Listings(PageEntries)}
    /\ coreStyles = NoCoreStyles
    /\ coreScripts \in PageCoreScripts
    /\ imagesDir = NoDir
    /\ fontsDir = NoDir
    /\ build = EmptyBuild
    /\ readOnly = {}
    /\ pc = "start"
    /\ console = <<>>
    /\ runs = 1
    /\ page = NoPage

NextPage ==
    \/ RunBuild
    \/ LoadPage
    \/ DOMContentLoaded

SpecPage == InitPage /\ [][NextPage]_vars

\* a component script of the sources declares the function f
DeclaredByComponent(f) ==
    \E i \in 1..Len(ComponentDirs(componentsDir)) :
        LET script == ComponentFile(ComponentDirs(componentsDir)[i], ".js")
        IN  /\ ExistsSync(script)
            /\ \E j \in 1..Len(script.data) : script.data[j] = "function " \o f

MainInBundle == ExistsSync(coreScripts["main.js"])

\* how many times f has been called
TimesCalled(f) == Cardinality({i \in 1..Len(page.calls) : page.calls[i] = f})

RECURSIVE Found(_)
Found(n) ==
    IF n = 0 THEN <<>>
    ELSE Found(n - 1) \o (IF TableNames[n] \in page.table
                          THEN <<TableNames[n]>> ELSE <<>>)

\* C20: in the handler of DOMContentLoaded an exception of a component
\* initializer is caught and logged and does not end the handler: every
\* initializer of the table is invoked all the same, and initBackToTop,
\* initCookieConsent, initModalHandlers and updateCopyrightYear are called
\* after them, in this order.
C20_InitializerExceptionCaught ==
    (page.fired /\ page.listening) =>
        LET found == Found(Len(TableNames))
        IN  /\ page.calls =
                  (IF page.aos THEN <<"AOS.init">> ELSE <<>>)
                      \o [i \in 1..Len(found) |-> InitializerOf[found[i]]]
                      \o <<"initBackToTop", "initCookieConsent",
                            "initModalHandlers", "updateCopyrightYear">>
            /\ Len(page.log) = Len(found)
            /\ \A i \in 1..Len(found) :
                   page.log[i] \in {LogLine(found[i]), ErrorLine(found[i])}

\* initHero has thrown, the error is on the console, and initAbout has been
\* called after it and has returned
C20_Witness ==
    /\ page.fired
    /\ page.log = <<ErrorLine("hero"), LogLine("about")>>
    /\ Len(page.calls) >= 6

-----------------------------------------------------------------------------
(* The menu and the nomination modal of a loaded page *)

\* the variables of the build, which the browser leaves alone
buildVars == <<sources, build, pc, console, runs>>

\* no build is going on
NoBuild ==
    /\ templateFile = NoFile
    /\ componentsDir = NoDir
    /\ coreStyles = NoCoreStyles
    /\ coreScripts = NoCoreScripts
    /\ imagesDir = NoDir
    /\ fontsDir = NoDir
    /\ build = EmptyBuild
    /\ readOnly = {}
    /\ pc = "done"
    /\ console = <<>>
    /\ runs = 1

\* the elements the scripts look up: #site-header, .hamburger, #nav-links,
\* the .nav-link items, the two openers #open-nomination-modal-nav and
\* #open-nomination-modal-hero, #nomination-modal and, inside it,
\* .modal-close and .modal-backdrop
Elements ==
    {"site-header", "hamburger", "nav-links", "nav-link",
     "open-nomination-modal-nav", "open-nomination-modal-hero",
     "nomination-modal", "modal-close", "modal-backdrop"}

Openers == {"open-nomination-modal-nav", "open-nomination-modal-hero"}

\* the documents: the close button and the backdrop are parts of the modal
Documents ==
    {d \in SUBSET Elements :
        d \cap {"modal-close", "modal-backdrop"} # {} => "nomination-modal" \in d}

\* the listeners initHeader has registered when it returns or throws:
\* handleHeaderScroll throws on a document without #site-header, before the
\* listener of the nominate button is added
HeaderListeners(dom) ==
    {e \in {"hamburger", "nav-link"} : e \in dom}
        \cup {e \in {"open-nomination-modal-nav"} :
                 e \in dom /\ "site-header" \in dom}

\* the listeners initModalHandlers has registered: none without the modal
ModalListeners(dom) ==
    IF "nomination-modal" \notin dom THEN {}
    ELSE {e \in Openers \cup {"modal-close", "modal-backdrop"} : e \in dom}
             \cup {"keydown"}

\* the page after the handler of DOMContentLoaded has run on a document, with
\* or without the script of the Header component in the bundle
LoadedPage(dom, withHeader) ==
    [dom |-> dom,
     header |-> IF withHeader THEN HeaderListeners(dom) ELSE {},
     modal |-> ModalListeners(dom),
     hamburgerActive |-> FALSE,
     navLinksActive |-> FALSE,
     ariaExpanded |-> "unset",
     modalActive |-> FALSE,
     overflow |-> ""]

InitOverlay ==
    /\ NoBuild
    /\ page \in {LoadedPage(d, h) : d \in Documents, h \in BOOLEAN}

\* String(isExpanded), as setAttribute stores it
BoolString(b) == IF b THEN "true" ELSE "false"

\* a click on a nav link that closes the menu by the class of the hamburger
\* alone
ClickNavLinkHamburgerOnly ==
    /\ "nav-link" \in page.header
    /\ "hamburger" \in page.dom
    /\ page.hamburgerActive
    /\ page' = [page EXCEPT !.hamburgerActive = FALSE,
                            !.ariaExpanded = "false",
                            !.overflow = ""]
    /\ UNCHANGED buildVars

\* the click listener of the hamburger; navLinks.classList throws on a
\* document without #nav-links, after the class of the hamburger is toggled
ClickHamburger ==
    /\ "hamburger" \in page.header
    /\ IF "nav-links" \notin page.dom
       THEN page' = [page EXCEPT !.hamburgerActive = ~@]
       ELSE page' = [page EXCEPT
                        !.hamburgerActive = ~@,
                        !.navLinksActive = ~@,
                        !.ariaExpanded = BoolString(~page.hamburgerActive),
                        !.overflow = IF ~page.hamburgerActive THEN "hidden"
                                     ELSE ""]
    /\ UNCHANGED buildVars

\* the click listener of a nav link, on a page where it does something:
\* hamburger.classList throws on a document without .hamburger
ClickNavLink ==
    /\ "nav-link" \in page.header
    /\ "hamburger" \in page.dom
    /\ page.hamburgerActive
    /\ IF "nav-links" \notin page.dom
       THEN page' = [page EXCEPT !.hamburgerActive = FALSE]
       ELSE page' = [page EXCEPT !.hamburgerActive = FALSE,
                                !.navLinksActive = FALSE,
                                !.ariaExpanded = "false",
                                !.overflow = ""]
    /\ UNCHANGED buildVars

\* a click on an opener: the listener of initHeader on the nav button and the
\* listener of initModalHandlers do the same to a modal that exists
ClickOpener ==
    /\ \E opener \in Openers : opener \in page.header \cup page.modal
    /\ "nomination-modal" \in page.dom
    /\ page' = [page EXCEPT !.modalActive = TRUE, !.overflow = "hidden"]
    /\ UNCHANGED buildVars

\* closeModal
CloseModal == page' = [page EXCEPT !.modalActive = FALSE, !.overflow = ""]

\* the close button and the backdrop are clicked on a modal that is shown
ClickModalClose ==
    /\ "modal-close" \in page.modal
    /\ page.modalActive
    /\ CloseModal
    /\ UNCHANGED buildVars

ClickBackdrop ==
    /\ "modal-backdrop" \in page.modal
    /\ page.modalActive
    /\ CloseModal
    /\ UNCHANGED buildVars

\* the keydown listener, on the key Escape
PressEscape ==
    /\ "keydown" \in page.modal
    /\ page.modalActive
    /\ CloseModal
    /\ UNCHANGED buildVars

NextOverlay ==
    \/ ClickHamburger
    \/ ClickNavLink
    \/ ClickOpener
    \/ ClickModalClose
    \/ ClickBackdrop
    \/ PressEscape

SpecOverlay == InitOverlay /\ [][NextOverlay]_vars

\* C21: scrolling of the page is prevented whenever an overlay is open: after
\* any sequence of clicks on the hamburger, the nav links, the openers of the
\* modal, its close button and its backdrop and of presses of Escape, if the
\* hamburger or the nomination modal has the class active then
\* document.body.style.overflow is hidden.  Stated on the documents that
\* have every element the scripts look up, on which no listener throws.
C21_OverlayOpenScrollLocked ==
    (page.dom = Elements /\ (page.hamburgerActive \/ page.modalActive))
        => page.overflow = "hidden"

\* the document has the hamburger and the nav links that the menu is made of
MenuInDocument == {"hamburger", "nav-links"} \subseteq page.dom

\* C22: the state of the mobile menu stays consistent: from a page where
\* neither is active, after any sequence of hamburger and nav-link clicks the
\* hamburger has the class active exactly when the nav links have it, and
\* after every hamburger click aria-expanded says whether the hamburger is
\* active.
C22_MenuConsistent ==
    /\ [](MenuInDocument => page.hamburgerActive = page.navLinksActive)
    /\ [][(ClickHamburger /\ MenuInDocument) =>
              page'.ariaExpanded = BoolString(page'.hamburgerActive)]_vars

\* the menu has been opened and closed again, on a page with nav links
C22_Witness ==
    /\ MenuInDocument
    /\ "nav-link" \in page.header
    /\ ~page.hamburgerActive
    /\ ~page.navLinksActive
    /\ page.ariaExpanded = "false"

-----------------------------------------------------------------------------
(* The cookie consent banner, in the pages of one origin *)

\* the pages that are open at a time; they share localStorage
NumTabs == 2

Tabs == 1..NumTabs

ConsentElements == {"cookie-consent", "cookie-accept", "cookie-decline"}

\* localStorage.getItem('cookieConsent') is one of these; "null" is no item
Choices == {"accepted", "declined"}

\* a tab in which the site is not loaded
NoTab == [loaded |-> FALSE, display |-> "", handlers |-> {}]

\* initCookieConsent that adds its listeners whatever is stored
InitCookieConsentAlways(dom, stored) ==
    IF "cookie-consent" \notin dom
    THEN [loaded |-> TRUE, display |-> "", handlers |-> {}]
    ELSE IF stored \in Choices
    THEN [loaded |-> TRUE, display |-> "none",
          handlers |-> dom \cap {"cookie-accept", "cookie-decline"}]
    ELSE [loaded |-> TRUE, display |-> "block",
          handlers |-> dom \cap {"cookie-accept", "cookie-decline"}]

\* initCookieConsent on a fresh document: the display of the banner and the
\* buttons that have got a click listener
InitCookieConsent(dom, stored) ==
    IF "cookie-consent" \notin dom
    THEN [loaded |-> TRUE, display |-> "", handlers |-> {}]
    ELSE IF stored \in Choices
    THEN [loaded |-> TRUE, display |-> "none", handlers |-> {}]
    ELSE [loaded |-> TRUE, display |-> "block",
          handlers |-> dom \cap {"cookie-accept", "cookie-decline"}]

InitConsent ==
    /\ NoBuild
    /\ page \in {[dom |-> d, storage |-> s, tabs |-> [t \in Tabs |-> NoTab]] :
                    d \in SUBSET ConsentElements, s \in Choices \cup {"null"}}

\* the page is loaded, or loaded again, in a tab
LoadTab(t) ==
    /\ page' = [page EXCEPT !.tabs[t] = InitCookieConsent(page.dom, page.storage)]
    /\ UNCHANGED buildVars

\* a click on a button of the banner that a tab shows
Click(t, button, choice) ==
    /\ button \in page.tabs[t].handlers
    /\ page.tabs[t].display = "block"
    /\ page' = [page EXCEPT !.storage = choice, !.tabs[t].display = "none"]
    /\ UNCHANGED buildVars

ClickAccept(t) == Click(t, "cookie-accept", "accepted")

ClickDecline(t) == Click(t, "cookie-decline", "declined")

NextConsent ==
    \E t \in Tabs :
        \/ LoadTab(t)
        \/ ClickAccept(t)
        \/ ClickDecline(t)

SpecConsent == InitConsent /\ [][NextConsent]_vars

Decided == page.storage \in Choices

\* the tabs that still show a banner with listeners
Showing == {t \in Tabs : page.tabs[t].display = "block"
                            /\ page.tabs[t].handlers # {}}

\* C23: cookie consent is decided once: as soon as localStorage holds
\* accepted or declined, every later page load hides the banner and
\* registers no handler, so that no later sequence of page loads and clicks
\* changes the stored choice; while no choice is stored, each page load
\* shows the banner.
C23_ChoiceNeverChanged ==
    [][Decided => page'.storage = page.storage]_vars

\* C23, as the code has it: a page load on a stored choice hides the banner
\* and registers no handler, a page load without one shows the banner and
\* registers the handlers, and a stored choice is changed only by a click on
\* the banner that a page loaded before the choice was stored still shows;
\* with one page open there is no such banner.
C23_LaterLoadsDecided ==
    /\ [][\A t \in Tabs :
             (LoadTab(t) /\ "cookie-consent" \in page.dom) =>
                 IF Decided
                 THEN page'.tabs[t].display = "none"
                          /\ page'.tabs[t].handlers = {}
                 ELSE page'.tabs[t].display = "block"
                          /\ page'.tabs[t].handlers =
                                 page.dom \cap {"cookie-accept", "cookie-decline"}
        ]_vars
    /\ [][(Decided /\ page'.storage # page.storage) =>
             \E t \in Showing : page'.tabs[t].display = "none"]_vars
    /\ [](Cardinality({t \in Tabs : page.tabs[t].loaded}) <= 1
             => (Decided => Showing = {}))

\* a choice is stored, and a page loaded afterwards hides the banner while
\* another page, loaded before, still shows it
C23_Witness ==
    /\ Decided
    /\ \E t \in Tabs : page.tabs[t].loaded /\ page.tabs[t].display = "none"
                            /\ page.tabs[t].handlers = {}
    /\ Showing # {}

-----------------------------------------------------------------------------
(* Utils.debounce and Utils.throttle *)

\* Time is counted in units.  A timer set with setTimeout(f, d) at time t
\* runs f at time t + d, before anything else that happens at that time.

MaxTime == 4

MaxWait == 2

MaxCalls == 3

Arguments == {"a", "b"}

\* no timer is set
NoTimer == [set |-> FALSE, due |-> 0, arg |-> "a"]

Timer(due, arg) == [set |-> TRUE, due |-> due, arg |-> arg]

CallOf(arg, at) == [kind |-> "call", at |-> at, arg |-> arg]

InvocationOf(arg, at) == [kind |-> "func", at |-> at, arg |-> arg]

\* the function that Utils.debounce(func, wait) or Utils.throttle(func, limit)
\* has returned, its closure (timeout, inThrottle), and what has happened
Wrapped(kind, wait) ==
    [kind |-> kind, wait |-> wait, now |-> 0, timeout |-> NoTimer,
     inThrottle |-> FALSE, trace |-> <<>>]

InitTimers ==
    /\ NoBuild
    /\ page \in {Wrapped(k, w) : k \in {"debounce", "throttle"}, w \in 1..MaxWait}

TimerDue == page.timeout.set /\ page.timeout.due = page.now

Calls == {i \in 1..Len(page.trace) : page.trace[i].kind = "call"}

Invocations == {i \in 1..Len(page.trace) : page.trace[i].kind = "func"}

CanCall == ~TimerDue /\ Cardinality(Calls) < MaxCalls

\* time passes, up to the next timer
Tick ==
    /\ ~TimerDue
    /\ page.now < MaxTime
    /\ page' = [page EXCEPT !.now = @ + 1]
    /\ UNCHANGED buildVars

\* a debounced function that lets a pending timer be: the call is dropped
CallDebouncedKeepFirst ==
    /\ page.kind = "debounce"
    /\ CanCall
    /\ \E arg \in Arguments :
           page' = [page EXCEPT
                       !.timeout = IF page.timeout.set THEN @
                                   ELSE Timer(page.now + page.wait, arg),
                       !.trace = Append(@, CallOf(arg, page.now))]
    /\ UNCHANGED buildVars

\* the debounced function is called: clearTimeout, then setTimeout
CallDebounced ==
    /\ page.kind = "debounce"
    /\ CanCall
    /\ \E arg \in Arguments :
           page' = [page EXCEPT
                       !.timeout = Timer(page.now + page.wait, arg),
                       !.trace = Append(@, CallOf(arg, page.now))]
    /\ UNCHANGED buildVars

\* the timer of the debounced function runs: func.apply(this, args)
RunDebounced ==
    /\ page.kind = "debounce"
    /\ TimerDue
    /\ page' = [page EXCEPT
                    !.timeout = NoTimer,
                    !.trace = Append(@, InvocationOf(page.timeout.arg, page.now))]
    /\ UNCHANGED buildVars

\* a throttled function that forgets to set inThrottle
CallThrottledNoFlag ==
    /\ page.kind = "throttle"
    /\ CanCall
    /\ \E arg \in Arguments :
           page' = [page EXCEPT
                       !.timeout = Timer(page.now + page.wait, arg),
                       !.trace = @ \o <<CallOf(arg, page.now),
                                        InvocationOf(arg, page.now)>>]
    /\ UNCHANGED buildVars

\* the throttled function is called
CallThrottled ==
    /\ page.kind = "throttle"
    /\ CanCall
    /\ \E arg \in Arguments :
           IF page.inThrottle
           THEN page' = [page EXCEPT !.trace = Append(@, CallOf(arg, page.now))]
           ELSE page' = [page EXCEPT
                            !.inThrottle = TRUE,
                            !.timeout = Timer(page.now + page.wait, arg),
                            !.trace = @ \o <<CallOf(arg, page.now),
                                             InvocationOf(arg, page.now)>>]
    /\ UNCHANGED buildVars

\* the timer of the throttled function runs: inThrottle = false
EndThrottle ==
    /\ page.kind = "throttle"
    /\ TimerDue
    /\ page' = [page EXCEPT !.timeout = NoTimer, !.inThrottle = FALSE]
    /\ UNCHANGED buildVars

NextTimers ==
    \/ Tick
    \/ CallDebounced
    \/ RunDebounced
    \/ CallThrottled
    \/ EndThrottle

SpecTimers == InitTimers /\ [][NextTimers]_vars

\* the invocations of func between entry i of the trace and the next call, or
\* the end of the trace
InvocationsAfter(i) ==
    {j \in Invocations : j > i /\ \A k \in Calls : k > i => j < k}

\* entry i is the last call of its burst: the next call, if there is one,
\* comes wait units later or more
EndsBurst(i) ==
    \A k \in Calls :
        k > i => page.trace[k].at >= page.trace[i].at + page.wait

\* the wait after call i is over
WaitOver(i) ==
    \/ \E k \in Calls : k > i
    \/ ~page.timeout.set

\* C24: the function that Utils.debounce(func, wait) returns invokes func only
\* when wait units have passed since the most recent call, with no call in
\* between: a burst of calls less than wait apart gives exactly one
\* invocation, after the last call of the burst and with its arguments, and a
\* call never invokes func synchronously.
C24_DebounceInvokesOncePerBurst ==
    page.kind = "debounce" =>
        /\ \A j \in Invocations :
               \E i \in Calls :
                   /\ j \in InvocationsAfter(i)
                   /\ page.trace[j].at = page.trace[i].at + page.wait
                   /\ page.trace[j].arg = page.trace[i].arg
        /\ \A i \in Calls :
               Cardinality(InvocationsAfter(i)) =
                   IF EndsBurst(i) /\ WaitOver(i) THEN 1 ELSE 0

\* a burst of two calls has been followed by one invocation with the argument
\* of the second, and a third call, later, waits for its own
C24_Witness ==
    /\ page.kind = "debounce"
    /\ page.wait = 2
    /\ Len(page.trace) = 4
    /\ page.trace[1] = CallOf("a", 0)
    /\ page.trace[2] = CallOf("b", 1)
    /\ page.trace[3] = InvocationOf("b", 3)
    /\ page.trace[4].kind = "call"
    /\ page.timeout.set

\* C25: the function that Utils.throttle(func, limit) returns invokes func at
\* once on a call made while not throttled and drops every call made less
\* than limit units after an invoking call, with no trailing invocation: two
\* invocations are never less than limit apart, and the first call after the
\* window invokes func again.
C25_ThrottleInvokesAtMostOncePerWindow ==
    page.kind = "throttle" =>
        /\ \A i, j \in Invocations :
               i < j => page.trace[j].at >= page.trace[i].at + page.wait
        /\ \A j \in Invocations :
               j - 1 \in Calls /\ page.trace[j - 1].at = page.trace[j].at
                   /\ page.trace[j - 1].arg = page.trace[j].arg
        /\ \A i \in Calls :
               i + 1 \in Invocations <=>
                   \A j \in Invocations :
                       j < i => page.trace[i].at >= page.trace[j].at + page.wait

\* a call has invoked func, a call within the window has been dropped, and a
\* call after the window has invoked func again
C25_Witness ==
    /\ page.kind = "throttle"
    /\ page.wait = 2
    /\ page.trace = <<CallOf("a", 0), InvocationOf("a", 0), CallOf("b", 1),
                      CallOf("b", 2), InvocationOf("b", 2)>>

-----------------------------------------------------------------------------
(* Validation.validateForm *)

MaxFields == 2

\* the types of form.elements that matter: three that are checked, one that
\* is not, and a button
FieldTypes == {"text", "email", "url", "tel", "submit"}

\* a value that the check of the type accepts
ValidSample ==
    [text |-> "x", email |-> "a@b.co", url |-> "http://a.b",
     tel |-> "555-123-4567", submit |-> "Send"]

\* the values of a field of a type: empty, blank, accepted by the check of
\* the type, and not accepted by any check
ValuesOf(type) == {"", " ", ValidSample[type], "x"}

Field(name, type, required, value) ==
    [name |-> name, type |-> type, required |-> required, value |-> value]

\* the elements of a form: named "a" or "b" or unnamed; ordinary names, no
\* member of Object.prototype among them
Fields ==
    UNION {{Field(n, t, r, v) : n \in {"a", "b"}, r \in BOOLEAN, v \in ValuesOf(t)} :
              t \in FieldTypes \ {"submit"}}
        \cup {Field("", "text", TRUE, ""), Field("a", "submit", TRUE, "")}

Forms == UNION {[1..n -> Fields] : n \in 0..MaxFields}

\* String.prototype.trim on the values used
Trim(value) == IF value = " " THEN "" ELSE value

\* Validation.isValidEmail, new URL(url) not throwing, and the test of the
\* regular expression for telephone numbers, on the values used
IsValidEmail(value) == value = "a@b.co"

IsValidUrl(value) == value = "http://a.b"

IsValidTel(value) == value = "555-123-4567"

Skipped(field) ==
    field.name = "" \/ field.type \in {"button", "submit", "reset"}

\* the message the switch on field.type stores, "" when it stores none
TypeError(field) ==
    IF field.value = "" THEN ""
    ELSE IF field.type = "email" /\ ~IsValidEmail(field.value)
    THEN "Please enter a valid email address"
    ELSE IF field.type = "url" /\ ~IsValidUrl(field.value)
    THEN "Please enter a valid URL"
    ELSE IF field.type = "tel" /\ ~IsValidTel(field.value)
    THEN "Please enter a valid phone number"
    ELSE ""

\* errors[name] = message; isValid = false
WithError(result, name, message) ==
    [isValid |-> FALSE,
     errors |-> [n \in DOMAIN result.errors \cup {name} |->
                    IF n = name THEN message ELSE result.errors[n]]]

\* the body of the forEach without the return after the check of required
CheckFieldNoReturn(result, field) ==
    IF Skipped(field) THEN result
    ELSE LET checked == IF field.required /\ Trim(field.value) = ""
                        THEN WithError(result, field.name,
                                       "This field is required")
                        ELSE result
         IN  IF TypeError(field) # ""
             THEN WithError(checked, field.name, TypeError(field))
             ELSE checked

\* the body of the forEach
CheckField(result, field) ==
    IF Skipped(field) THEN result
    ELSE IF field.required /\ Trim(field.value) = ""
    THEN WithError(result, field.name, "This field is required")
    ELSE IF TypeError(field) # ""
    THEN WithError(result, field.name, TypeError(field))
    ELSE result

\* the forEach over the first n fields
RECURSIVE CheckFields(_, _)
CheckFields(fields, n) ==
    IF n = 0 THEN [isValid |-> TRUE, errors |-> [x \in {} |-> ""]]
    ELSE CheckField(CheckFields(fields, n - 1), fields[n])

InitForm ==
    /\ NoBuild
    /\ page \in {[form |-> f, validated |-> FALSE,
                   result |-> [isValid |-> TRUE, errors |-> [x \in {} |-> ""]]] :
                    f \in Forms}

\* Validation.validateForm(form)
ValidateForm ==
    /\ ~page.validated
    /\ page' = [page EXCEPT
                    !.validated = TRUE,
                    !.result = CheckFields(page.form, Len(page.form))]
    /\ UNCHANGED buildVars

SpecForm == InitForm /\ [][ValidateForm]_vars

\* field i of the form is named, is no button, is required and is blank
RequiredBlank(i) ==
    /\ ~Skipped(page.form[i])
    /\ page.form[i].required
    /\ page.form[i].value \in {"", " "}

\* field i is a named email, url or tel field that is not required and empty
OptionalEmpty(i) ==
    /\ page.form[i].name # ""
    /\ page.form[i].type \in {"email", "url", "tel"}
    /\ ~page.form[i].required
    /\ page.form[i].value = ""

\* the fields that share the name of field i
SameName(i) ==
    {j \in 1..Len(page.form) : page.form[j].name = page.form[i].name}

Errors == page.result.errors

MessageOf(i) ==
    IF Skipped(page.form[i]) THEN ""
    ELSE IF RequiredBlank(i) THEN "This field is required"
    ELSE IF page.form[i].value = "" THEN ""
    ELSE IF page.form[i].type = "email" /\ page.form[i].value # "a@b.co"
    THEN "Please enter a valid email address"
    ELSE IF page.form[i].type = "url" /\ page.form[i].value # "http://a.b"
    THEN "Please enter a valid URL"
    ELSE IF page.form[i].type = "tel" /\ page.form[i].value # "555-123-4567"
    THEN "Please enter a valid phone number"
    ELSE ""

\* the fields with a message
Failing == {i \in 1..Len(page.form) : MessageOf(i) # ""}

====
